---------------------------- MODULE Spec2Model ----------------------------
(***************************************************************************)
(* Model of backend/scripts/process_syllabus.py: the event-text parser and *)
(* the iCalendar generator of AggieAce.                                     *)
(*                                                                         *)
(* A Python str is a sequence of one-character strings, a datetime is a    *)
(* record [y, m, d] (the code only ever builds midnight datetimes), a list *)
(* is a sequence, and a dict with insertion order is a sequence of pairs.  *)
(* A call that raises is a record with raised = TRUE.                      *)
(***************************************************************************)
EXTENDS Integers, Sequences, FiniteSets, TLC

VARIABLES
    pc,                \* position of convert_syllabus_to_calendar
    class_name,        \* argument class_name
    section_number,    \* argument section_number
    timezone,          \* argument timezone
    semester_start,    \* argument semester_start (str)
    semester_end,      \* argument semester_end (str)
    extracted_events,  \* text returned by extract_events_from_syllabus
    events,            \* generate_ics_file: events (list of dicts)
    gen_ics_content,   \* generate_ics_file: ics_content, the joined lines
    ics_content,       \* convert_syllabus_to_calendar: ics_content (returned text)
    error,             \* the exception that propagated to the caller
    save_invoked,      \* save_ics_file was called
    saved_file,        \* content of output_file on disk
    fn,                \* unit harness: the function applied
    arg,               \* unit harness: its arguments
    ret                \* unit harness: its result

conv_vars == <<pc, class_name, section_number, timezone, semester_start,
               semester_end, extracted_events, events, gen_ics_content,
               ics_content, error, save_invoked, saved_file>>

unit_vars == <<fn, arg, ret>>

vars == <<conv_vars, unit_vars>>

(***************************************************************************)
(* Bounds of the model.                                                    *)
(***************************************************************************)
\* longest batch of lines drawn freely from LineSet
MaxLines == 2
\* longest text handed to escape_ics_text
MaxTextLen == 3
\* longest time token drawn freely from TimeAlphabet
MaxTimeLen == 3

(***************************************************************************)
(* Python str operations on sequences of characters.                       *)
(***************************************************************************)
\* None where the program expects a datetime or a dict
None == [none |-> TRUE]

\* None where the program expects a str (no character is spelled "None")
NoStr == <<"None">>

Digits == {"0", "1", "2", "3", "4", "5", "6", "7", "8", "9"}

\* str.strip() and the regex class \s: ASCII whitespace
Whitespace == {" ", "\t", "\n", "\r"}

RECURSIVE Concat(_)
\* ''.join(list of str)
Concat(ss) == IF ss = <<>> THEN <<>> ELSE Head(ss) \o Concat(Tail(ss))

RECURSIVE Join(_, _)
\* sep.join(list of str)
Join(ss, sep) ==
    IF ss = <<>> THEN <<>>
    ELSE IF Len(ss) = 1 THEN ss[1]
    ELSE ss[1] \o sep \o Join(Tail(ss), sep)

\* sub in s
Contains(s, sub) ==
    \E i \in 1..(Len(s) - Len(sub) + 1) : SubSeq(s, i, i + Len(sub) - 1) = sub

\* the first index >= from at which sub occurs in s, or 0
Find(s, sub, from) ==
    LET hits == {i \in from..(Len(s) - Len(sub) + 1) :
                    SubSeq(s, i, i + Len(sub) - 1) = sub}
    IN  IF hits = {} THEN 0 ELSE CHOOSE i \in hits : \A j \in hits : i <= j

RECURSIVE CountFrom(_, _, _)
CountFrom(s, sub, from) ==
    LET i == Find(s, sub, from)
    IN  IF i = 0 THEN 0 ELSE 1 + CountFrom(s, sub, i + Len(sub))

\* s.count(sub) for a non-empty sub: non-overlapping occurrences, left to right
Count(s, sub) == CountFrom(s, sub, 1)

RECURSIVE LStrip(_)
LStrip(s) == IF s # <<>> /\ Head(s) \in Whitespace THEN LStrip(Tail(s)) ELSE s

RECURSIVE RStrip(_)
RStrip(s) ==
    IF s # <<>> /\ s[Len(s)] \in Whitespace
    THEN RStrip(SubSeq(s, 1, Len(s) - 1)) ELSE s

\* s.strip()
Strip(s) == RStrip(LStrip(s))

\* s.split(c) for a one-character separator c: the runs between the separators,
\* always at least one part
Split(s, c) ==
    LET seps == {i \in 1..Len(s) : s[i] = c}
        \* the k-th separator from the left; 0 and Len(s) + 1 bracket the string
        at(k) == IF k = 0 THEN 0
                 ELSE IF k > Cardinality(seps) THEN Len(s) + 1
                 ELSE CHOOSE i \in seps : Cardinality({j \in seps : j < i}) = k - 1
    IN  [k \in 1..(Cardinality(seps) + 1) |-> SubSeq(s, at(k - 1) + 1, at(k) - 1)]

UpperToLower ==
    [A |-> "a", B |-> "b", C |-> "c", D |-> "d", E |-> "e", F |-> "f", G |-> "g",
     H |-> "h", I |-> "i", J |-> "j", K |-> "k", L |-> "l", M |-> "m", N |-> "n",
     O |-> "o", P |-> "p", Q |-> "q", R |-> "r", S |-> "s", T |-> "t", U |-> "u",
     V |-> "v", W |-> "w", X |-> "x", Y |-> "y", Z |-> "z"]

\* s.lower()
Lower(s) ==
    [i \in 1..Len(s) |->
        IF s[i] \in DOMAIN UpperToLower THEN UpperToLower[s[i]] ELSE s[i]]

\* s.replace(old, new) for a one-character old
Replace(s, old, new) ==
    Concat([i \in 1..Len(s) |-> IF s[i] = old THEN new ELSE <<s[i]>>])

\* s.isdigit()
IsDigit(s) == s # <<>> /\ \A i \in 1..Len(s) : s[i] \in Digits

DigitVal(c) ==
    CASE c = "0" -> 0 [] c = "1" -> 1 [] c = "2" -> 2 [] c = "3" -> 3
      [] c = "4" -> 4 [] c = "5" -> 5 [] c = "6" -> 6 [] c = "7" -> 7
      [] c = "8" -> 8 [] c = "9" -> 9

DigitChar(n) == <<"0", "1", "2", "3", "4", "5", "6", "7", "8", "9">>[n + 1]

RECURSIVE IntOf(_)
\* int(s) for a string of decimal digits
IntOf(s) ==
    IF s = <<>> THEN 0
    ELSE 10 * IntOf(SubSeq(s, 1, Len(s) - 1)) + DigitVal(s[Len(s)])

RECURSIVE Str(_)
\* str(n) for n >= 0
Str(n) == IF n < 10 THEN <<DigitChar(n)>> ELSE Append(Str(n \div 10), DigitChar(n % 10))

RECURSIVE ZeroPad(_, _)
\* format(n, '0<w>d') for n >= 0: at least w digits, never truncated
ZeroPad(n, w) == IF Len(Str(n)) >= w THEN Str(n) ELSE <<"0">> \o ZeroPad(n, w - 1)

(***************************************************************************)
(* String literals of the program, spelled out character by character.     *)
(***************************************************************************)
\* 'BEGIN:VCALENDAR'
BEGIN_VCALENDAR ==
    <<"B", "E", "G", "I", "N", ":", "V", "C", "A", "L", "E", "N", "D", "A", "R">>

\* 'VERSION:2.0'
VERSION_2_0 ==
    <<"V", "E", "R", "S", "I", "O", "N", ":", "2", ".", "0">>

\* 'CALSCALE:GREGORIAN'
CALSCALE_GREGORIAN ==
    <<"C", "A", "L", "S", "C", "A", "L", "E", ":", "G", "R", "E", "G", "O", "R", "I", "A", "N">>

\* 'END:VCALENDAR'
END_VCALENDAR ==
    <<"E", "N", "D", ":", "V", "C", "A", "L", "E", "N", "D", "A", "R">>

\* 'BEGIN:VEVENT'
BEGIN_VEVENT ==
    <<"B", "E", "G", "I", "N", ":", "V", "E", "V", "E", "N", "T">>

\* 'END:VEVENT'
END_VEVENT ==
    <<"E", "N", "D", ":", "V", "E", "V", "E", "N", "T">>

\* 'PRODID:-//AggieAce//Syllabus Converter//EN'
PRODID_LINE ==
    <<"P", "R", "O", "D", "I", "D", ":", "-", "/", "/", "A", "g", "g", "i", "e", "A", "c", "e", "/", "/", "S", "y", "l", "l", "a", "b", "u", "s", " ", "C", "o", "n", "v", "e", "r", "t", "e", "r", "/", "/", "E", "N">>

\* 'X-WR-TIMEZONE:'
X_WR_TIMEZONE ==
    <<"X", "-", "W", "R", "-", "T", "I", "M", "E", "Z", "O", "N", "E", ":">>

\* 'X-WR-CALNAME:'
X_WR_CALNAME ==
    <<"X", "-", "W", "R", "-", "C", "A", "L", "N", "A", "M", "E", ":">>

\* 'UID:'
UID_PREFIX ==
    <<"U", "I", "D", ":">>

\* '@aggieace.converter'
UID_SUFFIX ==
    <<"@", "a", "g", "g", "i", "e", "a", "c", "e", ".", "c", "o", "n", "v", "e", "r", "t", "e", "r">>

\* 'DTSTAMP:'
DTSTAMP_PREFIX ==
    <<"D", "T", "S", "T", "A", "M", "P", ":">>

\* 'SUMMARY:'
SUMMARY_PREFIX ==
    <<"S", "U", "M", "M", "A", "R", "Y", ":">>

\* 'LOCATION:'
LOCATION_PREFIX ==
    <<"L", "O", "C", "A", "T", "I", "O", "N", ":">>

\* 'STATUS:CONFIRMED'
STATUS_CONFIRMED ==
    <<"S", "T", "A", "T", "U", "S", ":", "C", "O", "N", "F", "I", "R", "M", "E", "D">>

\* 'DTSTART;VALUE=DATE:'
DTSTART_DATE ==
    <<"D", "T", "S", "T", "A", "R", "T", ";", "V", "A", "L", "U", "E", "=", "D", "A", "T", "E", ":">>

\* 'DTEND;VALUE=DATE:'
DTEND_DATE ==
    <<"D", "T", "E", "N", "D", ";", "V", "A", "L", "U", "E", "=", "D", "A", "T", "E", ":">>

\* 'DTSTART:'
DTSTART_PREFIX ==
    <<"D", "T", "S", "T", "A", "R", "T", ":">>

\* 'DTEND:'
DTEND_PREFIX ==
    <<"D", "T", "E", "N", "D", ":">>

\* 'RRULE:FREQ=WEEKLY;BYDAY='
RRULE_PREFIX ==
    <<"R", "R", "U", "L", "E", ":", "F", "R", "E", "Q", "=", "W", "E", "E", "K", "L", "Y", ";", "B", "Y", "D", "A", "Y", "=">>

\* ';UNTIL='
UNTIL_PREFIX ==
    <<";", "U", "N", "T", "I", "L", "=">>

\* 'T235959'
T235959 ==
    <<"T", "2", "3", "5", "9", "5", "9">>

\* 'DESCRIPTION:Recurring '
DESCRIPTION_RECURRING ==
    <<"D", "E", "S", "C", "R", "I", "P", "T", "I", "O", "N", ":", "R", "e", "c", "u", "r", "r", "i", "n", "g", " ">>

\* 'DESCRIPTION:'
DESCRIPTION_PREFIX ==
    <<"D", "E", "S", "C", "R", "I", "P", "T", "I", "O", "N", ":">>

\* 'TBA'
TBA ==
    <<"T", "B", "A">>

\* 'all-day'
ALL_DAY_HYPHEN ==
    <<"a", "l", "l", "-", "d", "a", "y">>

\* 'all day'
ALL_DAY_SPACE ==
    <<"a", "l", "l", " ", "d", "a", "y">>

\* '\r\n'
CRLF ==
    <<"\r", "\n">>

\* day_map, in insertion order: <<day_name, day_code>>; a day code is kept as one
\* TLA+ string and spelled out by CodeText when it is written to the calendar
day_map ==
    <<<<<<"m", "o", "n", "d", "a", "y">>, "MO">>,
      <<<<"m", "o", "n">>, "MO">>,
      <<<<"m">>, "MO">>,
      <<<<"t", "u", "e", "s", "d", "a", "y">>, "TU">>,
      <<<<"t", "u", "e">>, "TU">>,
      <<<<"t", "u">>, "TU">>,
      <<<<"t">>, "TU">>,
      <<<<"w", "e", "d", "n", "e", "s", "d", "a", "y">>, "WE">>,
      <<<<"w", "e", "d">>, "WE">>,
      <<<<"w">>, "WE">>,
      <<<<"t", "h", "u", "r", "s", "d", "a", "y">>, "TH">>,
      <<<<"t", "h", "u">>, "TH">>,
      <<<<"t", "h">>, "TH">>,
      <<<<"r">>, "TH">>,
      <<<<"f", "r", "i", "d", "a", "y">>, "FR">>,
      <<<<"f", "r", "i">>, "FR">>,
      <<<<"f">>, "FR">>,
      <<<<"s", "a", "t", "u", "r", "d", "a", "y">>, "SA">>,
      <<<<"s", "a", "t">>, "SA">>,
      <<<<"s">>, "SA">>,
      <<<<"s", "u", "n", "d", "a", "y">>, "SU">>,
      <<<<"s", "u", "n">>, "SU">>,
      <<<<"s", "u">>, "SU">>>>

\* calendar.month_name of the C locale, lower-cased (strptime matches %B ignoring case)
MonthNames ==
    <<<<"j", "a", "n", "u", "a", "r", "y">>,
      <<"f", "e", "b", "r", "u", "a", "r", "y">>,
      <<"m", "a", "r", "c", "h">>,
      <<"a", "p", "r", "i", "l">>,
      <<"m", "a", "y">>,
      <<"j", "u", "n", "e">>,
      <<"j", "u", "l", "y">>,
      <<"a", "u", "g", "u", "s", "t">>,
      <<"s", "e", "p", "t", "e", "m", "b", "e", "r">>,
      <<"o", "c", "t", "o", "b", "e", "r">>,
      <<"n", "o", "v", "e", "m", "b", "e", "r">>,
      <<"d", "e", "c", "e", "m", "b", "e", "r">>>>

\* calendar.month_abbr of the C locale, lower-cased (%b)
MonthAbbrs ==
    <<<<"j", "a", "n">>,
      <<"f", "e", "b">>,
      <<"m", "a", "r">>,
      <<"a", "p", "r">>,
      <<"m", "a", "y">>,
      <<"j", "u", "n">>,
      <<"j", "u", "l">>,
      <<"a", "u", "g">>,
      <<"s", "e", "p">>,
      <<"o", "c", "t">>,
      <<"n", "o", "v">>,
      <<"d", "e", "c">>>>

CodeText(code) ==
    CASE code = "MO" -> <<"M", "O">> [] code = "TU" -> <<"T", "U">>
      [] code = "WE" -> <<"W", "E">> [] code = "TH" -> <<"T", "H">>
      [] code = "FR" -> <<"F", "R">> [] code = "SA" -> <<"S", "A">>
      [] code = "SU" -> <<"S", "U">>

(***************************************************************************)
(* datetime: dates of the proleptic Gregorian calendar.                    *)
(***************************************************************************)
IsLeap(y) == y % 4 = 0 /\ (y % 100 # 0 \/ y % 400 = 0)

DaysInMonth(y, m) ==
    IF m = 2 THEN (IF IsLeap(y) THEN 29 ELSE 28)
    ELSE IF m \in {4, 6, 9, 11} THEN 30 ELSE 31

Date(y, m, d) == [y |-> y, m |-> m, d |-> d]

RECURSIVE DaysBeforeMonth(_, _)
DaysBeforeMonth(y, m) ==
    IF m = 1 THEN 0 ELSE DaysBeforeMonth(y, m - 1) + DaysInMonth(y, m - 1)

\* datetime.toordinal(): 1 for 0001-01-01
ToOrdinal(dt) ==
    LET y1 == dt.y - 1
    IN  y1 * 365 + (y1 \div 4) - (y1 \div 100) + (y1 \div 400)
        + DaysBeforeMonth(dt.y, dt.m) + dt.d

\* datetime.weekday(): Monday is 0
Weekday(dt) == (ToOrdinal(dt) + 6) % 7

\* an exception raised by a call
Raised(exc) == [raised |-> TRUE, exc |-> exc]

\* datetime.MAXYEAR: datetime.max is December 31 of that year
MAXYEAR == 9999

\* dt + timedelta(days=1); OverflowError past datetime.max
NextDay(dt) ==
    IF dt = Date(MAXYEAR, 12, 31) THEN Raised("OverflowError")
    ELSE IF dt.d < DaysInMonth(dt.y, dt.m) THEN Date(dt.y, dt.m, dt.d + 1)
    ELSE IF dt.m < 12 THEN Date(dt.y, dt.m + 1, 1)
    ELSE Date(dt.y + 1, 1, 1)

\* a < b on datetimes
DateLess(a, b) ==
    \/ a.y < b.y
    \/ a.y = b.y /\ a.m < b.m
    \/ a.y = b.y /\ a.m = b.m /\ a.d < b.d

\* dt.strftime('%Y%m%d')
StrfYmd(dt) == ZeroPad(dt.y, 4) \o ZeroPad(dt.m, 2) \o ZeroPad(dt.d, 2)

(***************************************************************************)
(* datetime.strptime, one operator per format the program uses.  A result  *)
(* of None stands for the ValueError strptime raises.                      *)
(***************************************************************************)
\* %m: 1[0-2]|0[1-9]|[1-9]
IsMonthField(p) == Len(p) \in {1, 2} /\ IsDigit(p) /\ IntOf(p) \in 1..12

\* %d: 3[01]|[12]\d|0[1-9]|[1-9]| [1-9]
IsDayField(p) ==
    \/ Len(p) \in {1, 2} /\ IsDigit(p) /\ IntOf(p) \in 1..31
    \/ Len(p) = 2 /\ p[1] = " " /\ p[2] \in Digits \ {"0"}

DayOf(p) == IF p[1] = " " THEN DigitVal(p[2]) ELSE IntOf(p)

\* %Y: \d\d\d\d, and datetime needs year >= 1
IsYearField(p) == Len(p) = 4 /\ IsDigit(p) /\ IntOf(p) >= 1

\* the datetime constructor's check of the day against the month
MakeDate(y, m, d) == IF d <= DaysInMonth(y, m) THEN Date(y, m, d) ELSE None

\* strptime_mdY on the fields between the slashes
MdYOfParts(parts) ==
    IF /\ Len(parts) = 3
       /\ IsMonthField(parts[1])
       /\ IsDayField(parts[2])
       /\ IsYearField(parts[3])
    THEN MakeDate(IntOf(parts[3]), IntOf(parts[1]), DayOf(parts[2]))
    ELSE None

\* datetime.strptime(s, '%m/%d/%Y')
strptime_mdY(s) == MdYOfParts(Split(s, "/"))

\* strptime_md on the fields between the slashes
MdOfParts(parts) ==
    IF Len(parts) = 2 /\ IsMonthField(parts[1]) /\ IsDayField(parts[2])
    THEN MakeDate(1900, IntOf(parts[1]), DayOf(parts[2]))
    ELSE None

\* datetime.strptime(s, '%m/%d'): the year defaults to 1900, which is not a leap year
strptime_md(s) == MdOfParts(Split(s, "/"))

\* the month whose name (from the table names) starts the lower-cased string, or
\* 0.  Python tries the longer names first; no name of either table starts
\* another one of the same table.
MonthOf(lowered, names) ==
    IF \E k \in 1..12 : /\ Len(names[k]) <= Len(lowered)
                        /\ SubSeq(lowered, 1, Len(names[k])) = names[k]
    THEN CHOOSE k \in 1..12 : /\ Len(names[k]) <= Len(lowered)
                              /\ SubSeq(lowered, 1, Len(names[k])) = names[k]
    ELSE 0

\* the month a string starts with, ignoring case (re.IGNORECASE of strptime)
MonthPrefix(s, names) == MonthOf(Lower(s), names)

\* what follows \s+ in p, or nothing when p does not start with whitespace
AfterSpaces(p) == IF p # <<>> /\ Head(p) \in Whitespace THEN LStrip(p) ELSE <<>>

\* the date of month k, the day field and the year field, or None
DateOfFields(k, day, year) ==
    IF IsDayField(day) /\ IsYearField(year)
    THEN MakeDate(IntOf(year), k, DayOf(day)) ELSE None

\* strptime_BdY once the month k is read: parts are the two sides of the comma
BdYOfParts(k, parts) ==
    IF Len(parts) = 2
    THEN DateOfFields(k, AfterSpaces(parts[1]), AfterSpaces(parts[2]))
    ELSE None

BdYOfMonth(s, k) ==
    IF k = 0 THEN None
    ELSE BdYOfParts(k, Split(SubSeq(s, Len(MonthNames[k]) + 1, Len(s)), ","))

\* datetime.strptime(s, '%B %d, %Y')
strptime_BdY(s) == BdYOfMonth(s, MonthPrefix(s, MonthNames))

\* the date of month k and the day field in the default year 1900, or None
DateOfDay(k, day) == IF IsDayField(day) THEN MakeDate(1900, k, DayOf(day)) ELSE None

NameDOfMonth(s, names, k) ==
    IF k = 0 THEN None
    ELSE DateOfDay(k, AfterSpaces(SubSeq(s, Len(names[k]) + 1, Len(s))))

\* datetime.strptime(s, '%B %d') and datetime.strptime(s, '%b %d'), by the table
strptime_name_d(s, names) == NameDOfMonth(s, names, MonthPrefix(s, names))

\* the year of a date read without one, lines 281-284: dt.replace(year=
\* sem_start.year), then sem_end.year if that is before sem_start.  dt comes from
\* a strptime without a year, so it is never February 29 and replace cannot
\* raise.  None (the ValueError of strptime) is passed on.
InferYear(dt, sem_start, sem_end) ==
    IF dt = None THEN None
    ELSE IF DateLess(Date(sem_start.y, dt.m, dt.d), sem_start)
         THEN Date(sem_end.y, dt.m, dt.d)
         ELSE Date(sem_start.y, dt.m, dt.d)

\* the first attempt that did not raise, or None
FirstParsed(attempts) ==
    IF \A i \in 1..Len(attempts) : attempts[i] = None THEN None
    ELSE attempts[CHOOSE i \in 1..Len(attempts) :
                    attempts[i] # None /\ \A j \in 1..(i - 1) : attempts[j] = None]

\* lines 271-314 on the stripped string: the five formats in order
ParseStripped(s, sem_start, sem_end) ==
    FirstParsed(<<strptime_mdY(s),
                  InferYear(strptime_md(s), sem_start, sem_end),
                  strptime_BdY(s),
                  InferYear(strptime_name_d(s, MonthNames), sem_start, sem_end),
                  InferYear(strptime_name_d(s, MonthAbbrs), sem_start, sem_end)>>)

\* parse_date(date_str, sem_start, sem_end): a datetime or None
parse_date(date_str, sem_start, sem_end) ==
    ParseStripped(Strip(date_str), sem_start, sem_end)

\* day_to_weekday numbered as strftime('%w') does, Sunday first
day_to_weekday_sunday_first(code) ==
    CASE code = "SU" -> 0 [] code = "MO" -> 1 [] code = "TU" -> 2
      [] code = "WE" -> 3 [] code = "TH" -> 4 [] code = "FR" -> 5
      [] code = "SA" -> 6

\* day_to_weekday
day_to_weekday(code) ==
    CASE code = "MO" -> 0 [] code = "TU" -> 1 [] code = "WE" -> 2
      [] code = "TH" -> 3 [] code = "FR" -> 4 [] code = "SA" -> 5
      [] code = "SU" -> 6

RECURSIVE ScanFromNext(_, _, _)
\* the for loop of find_first_occurrence with the increment before the test
ScanFromNext(current, targets, n) ==
    IF current = Raised("OverflowError") THEN current
    ELSE IF NextDay(current) = Raised("OverflowError") THEN NextDay(current)
    ELSE IF n = 0 THEN None
    ELSE IF Weekday(NextDay(current)) \in targets THEN NextDay(current)
    ELSE ScanFromNext(NextDay(current), targets, n - 1)

RECURSIVE ScanDays(_, _, _)
\* the for loop of find_first_occurrence with n iterations left, current being
\* the value of the last increment: the date returned, None when the loop is
\* exhausted, or the OverflowError of the increment
ScanDays(current, targets, n) ==
    IF current = Raised("OverflowError") THEN current
    ELSE IF n = 0 THEN None
    ELSE IF Weekday(current) \in targets THEN current
    ELSE ScanDays(NextDay(current), targets, n - 1)

\* range(7)
ScanLimit == 7

\* lines 336-340: what the loop returned or raised, or the start date when the
\* loop is exhausted
FoundOr(found, start_date) == IF found # None THEN found ELSE start_date

\* lines 331-340
FirstOfWeekdays(start_date, target_weekdays) ==
    IF target_weekdays = {} THEN start_date
    ELSE FoundOr(ScanDays(start_date, target_weekdays, ScanLimit), start_date)

\* find_first_occurrence(start_date, days): a datetime, or the OverflowError raised
find_first_occurrence(start_date, days) ==
    FirstOfWeekdays(start_date, {day_to_weekday(days[i]) : i \in 1..Len(days)})

(***************************************************************************)
(* parse_time                                                              *)
(***************************************************************************)
\* re.sub(r'[^\d:-]', '', s)
KeepTimeChars(s) == SelectSeq(s, LAMBDA c : c \in Digits \cup {":", "-"})

\* c in s for a character c
HasChar(s, c) == \E i \in 1..Len(s) : s[i] = c

HourMinute(h, m) == [raised |-> FALSE, h |-> h, m |-> m]

\* int(parts[0]), int(parts[1]) of a sub-token split at its colons; int('')
\* raises ValueError
ColonParts(parts) ==
    IF parts[1] = <<>> \/ parts[2] = <<>> THEN Raised("ValueError")
    ELSE HourMinute(IntOf(parts[1]), IntOf(parts[2]))

\* lines 376-382: the start time
StartTime(start_time) ==
    IF HasChar(start_time, ":") THEN ColonParts(Split(start_time, ":"))
    ELSE IF IsDigit(start_time) THEN HourMinute(IntOf(start_time), 0)
    ELSE HourMinute(0, 0)

\* lines 385-395: the end time, or one hour after the start
EndTime(end_time, start) ==
    IF end_time # NoStr /\ end_time # <<>> /\ HasChar(end_time, ":")
    THEN ColonParts(Split(end_time, ":"))
    ELSE IF end_time # NoStr /\ end_time # <<>> /\ IsDigit(end_time)
         THEN HourMinute(IntOf(end_time), 0)
    ELSE HourMinute(start.h + 1, start.m)

\* f"{h:02d}{m:02d}00"
FormatTime(t) == ZeroPad(t.h, 2) \o ZeroPad(t.m, 2) \o <<"0", "0">>

\* lines 397-400, or the exception of the end time
TimedResult(start, end) ==
    IF end.raised THEN end
    ELSE [raised |-> FALSE, start_time |-> FormatTime(start),
          end_time |-> FormatTime(end), is_all_day |-> FALSE]

\* lines 384-400 once the start time is parsed, or its exception
TimedFrom(start, end_time) ==
    IF start.raised THEN start ELSE TimedResult(start, EndTime(end_time, start))

\* lines 367-373 on the parts between the hyphens
StartEndOf(cleaned, parts) ==
    IF HasChar(cleaned, "-")
    THEN TimedFrom(StartTime(Strip(parts[1])), Strip(parts[2]))
    ELSE TimedFrom(StartTime(cleaned), NoStr)

\* lines 365-400
TimedOf(cleaned) == StartEndOf(cleaned, Split(cleaned, "-"))

\* lines 361-400 on the stripped, lower-cased string
ParseLowered(lowered) ==
    IF \/ Contains(lowered, ALL_DAY_HYPHEN)
       \/ Contains(lowered, ALL_DAY_SPACE)
       \/ lowered = <<>>
    THEN [raised |-> FALSE, start_time |-> NoStr, end_time |-> NoStr,
          is_all_day |-> TRUE]
    ELSE TimedOf(KeepTimeChars(lowered))

\* parse_time(time_str): (start_time, end_time, is_all_day), or the exception raised
parse_time(time_str) == ParseLowered(Lower(Strip(time_str)))

(***************************************************************************)
(* escape_ics_text                                                         *)
(***************************************************************************)
\* the four replace calls with the backslash replaced last
escape_backslash_last(text) ==
    IF text = <<>> THEN <<>>
    ELSE Replace(Replace(Replace(Replace(text,
            ";", <<"\\", ";">>),
            ",", <<"\\", ",">>),
            "\n", <<"\\", "n">>),
            "\\", <<"\\", "\\">>)

\* escape_ics_text(text)
escape_ics_text(text) ==
    IF text = <<>> THEN <<>>
    ELSE Replace(Replace(Replace(Replace(text,
            "\\", <<"\\", "\\">>),
            ";", <<"\\", ";">>),
            ",", <<"\\", ",">>),
            "\n", <<"\\", "n">>)

(***************************************************************************)
(* parse_extracted_events                                                  *)
(***************************************************************************)
RECURSIVE DetectDays(_, _, _)
\* lines 213-218: the loop over day_map.items() from entry k on
DetectDays(date_lower, k, recurring_days) ==
    IF k > Len(day_map) THEN recurring_days
    ELSE LET day_name == day_map[k][1]
             day_code == day_map[k][2]
         IN  IF /\ Contains(date_lower, day_name)
                /\ day_code \notin {recurring_days[i] : i \in 1..Len(recurring_days)}
             THEN DetectDays(date_lower, k + 1, Append(recurring_days, day_code))
             ELSE DetectDays(date_lower, k + 1, recurring_days)

\* lines 189-195: the fields of a line, stripped where EventOfParts reads them; no
\* field at all when the line has no delimiter (the continue of line 195), which
\* the test of line 197 skips alike
SplitFields(line) ==
    IF HasChar(line, "|") THEN Split(line, "|")
    ELSE IF HasChar(line, "\t") THEN Split(line, "\t")
    ELSE <<>>

\* lines 236-245: a single event when the date parses, else the line is dropped
SingleEvent(event_name, event_date, time_str, location) ==
    IF event_date # None
    THEN [name |-> event_name, type |-> "single", date |-> event_date,
          time |-> time_str, location |-> location]
    ELSE None

\* lines 220-234: a recurring event on the days detected
RecurringEvent(event_name, recurring_days, time_str, location, sem_start, sem_end) ==
    [name |-> event_name, type |-> "recurring", days |-> recurring_days,
     time |-> time_str, location |-> location,
     start_date |-> find_first_occurrence(sem_start, recurring_days),
     end_date |-> sem_end]

\* lines 220-245: recurring when a day was detected, else single
EventOf(event_name, date_str, time_str, location, recurring_days, sem_start, sem_end) ==
    IF recurring_days # <<>>
    THEN RecurringEvent(event_name, recurring_days, time_str, location,
                        sem_start, sem_end)
    ELSE SingleEvent(event_name, parse_date(date_str, sem_start, sem_end),
                     time_str, location)

\* lines 202-218: the fields of a line and the days its date field names
EventOfFields(event_name, date_str, time_str, location, sem_start, sem_end) ==
    EventOf(event_name, date_str, time_str, location,
            DetectDays(Lower(date_str), 1, <<>>), sem_start, sem_end)

\* lines 197-245
EventOfParts(parts, sem_start, sem_end) ==
    IF Len(parts) < 3 THEN None
    ELSE EventOfFields(Strip(parts[1]), Strip(parts[2]), Strip(parts[3]),
                       IF Len(parts) > 3 THEN Strip(parts[4]) ELSE TBA,
                       sem_start, sem_end)

\* lines 186-245 on the stripped line
EventOfLine(line, sem_start, sem_end) ==
    IF line = <<>> \/ Head(line) = "#" \/ Head(line) = "-" THEN None
    ELSE EventOfParts(SplitFields(line), sem_start, sem_end)

\* the body of the loop over lines (184-247) for one line: the event dict it
\* appends, or None when it takes a continue
ParseLine(raw_line, sem_start, sem_end) ==
    EventOfLine(Strip(raw_line), sem_start, sem_end)

\* the loop of lines 183-247: the events appended, in the order of the lines
ParseLines(lines, sem_start, sem_end) ==
    SelectSeq([i \in 1..Len(lines) |-> ParseLine(lines[i], sem_start, sem_end)],
              LAMBDA event : event # None)

\* the list returned at line 249, or the OverflowError that left
\* find_first_occurrence at line 228 while the list was built
EventsOrRaised(evs) ==
    IF \E i \in 1..Len(evs) : /\ evs[i].type = "recurring"
                              /\ evs[i].start_date = Raised("OverflowError")
    THEN Raised("OverflowError")
    ELSE [raised |-> FALSE, events |-> evs]

\* lines 183-249 once the semester dates are read (180-181)
EventsBetween(text, sem_start, sem_end) ==
    IF sem_start = None \/ sem_end = None THEN Raised("ValueError")
    ELSE EventsOrRaised(ParseLines(Split(Strip(text), "\n"), sem_start, sem_end))

\* parse_extracted_events(extracted_events, semester_start, semester_end): the
\* list of events, or the ValueError of strptime on a semester date
parse_extracted_events(text, start_str, end_str) ==
    EventsBetween(text, strptime_mdY(start_str), strptime_mdY(end_str))

(***************************************************************************)
(* generate_ics_file: the document                                         *)
(***************************************************************************)
\* datetime.utcnow().strftime('%Y%m%dT%H%M%SZ'): one instant stands for the clock
\* '20251101T120000Z'
dtstamp ==
    <<"2", "0", "2", "5", "1", "1", "0", "1", "T", "1", "2", "0", "0", "0", "0", "Z">>

\* str(uuid.uuid4()): hexadecimal digits and hyphens; the k-th event of a document
\* gets the identifier whose last group is k
uuid4(k) ==
    <<"0", "0", "0", "0", "0", "0", "0", "0", "-", "0", "0", "0", "0", "-", "4",
      "0", "0", "0", "-", "8", "0", "0", "0", "-">> \o ZeroPad(k, 12)

\* f"{class_name} ({section_number})"
FullClassName(cls, section) ==
    cls \o <<" ", "(">> \o section \o <<")">>

\* lines 464-471
HeaderLines(full_class_name, tz) ==
    <<BEGIN_VCALENDAR,
      VERSION_2_0,
      CALSCALE_GREGORIAN,
      PRODID_LINE,
      X_WR_TIMEZONE \o tz,
      X_WR_CALNAME \o escape_ics_text(full_class_name)>>

\* lines 492-500 and 510-518: DTSTART and DTEND of an event on date dt
DateLines(dt, t) ==
    IF t.is_all_day
    THEN <<DTSTART_DATE \o StrfYmd(dt), DTEND_DATE \o StrfYmd(NextDay(dt))>>
    ELSE <<DTSTART_PREFIX \o StrfYmd(dt) \o <<"T">> \o t.start_time,
           DTEND_PREFIX \o StrfYmd(dt) \o <<"T">> \o t.end_time>>

\* ','.join(event['days'])
DaysStr(days) == Join([i \in 1..Len(days) |-> CodeText(days[i])], <<",">>)

\* lines 481-490: the lines every event starts with
EventHead(k, summary, location) ==
    <<BEGIN_VEVENT,
      UID_PREFIX \o uuid4(k) \o UID_SUFFIX,
      DTSTAMP_PREFIX \o dtstamp,
      SUMMARY_PREFIX \o summary,
      LOCATION_PREFIX \o location,
      STATUS_CONFIRMED>>

\* lines 492-520: the lines after the head, by the type of the event
EventTail(event, event_name, t, until_date) ==
    IF event.type = "recurring"
    THEN DateLines(event.start_date, t)
         \o <<RRULE_PREFIX \o DaysStr(event.days) \o UNTIL_PREFIX \o until_date,
              DESCRIPTION_RECURRING \o event_name,
              END_VEVENT>>
    ELSE DateLines(event.date, t)
         \o <<DESCRIPTION_PREFIX \o event_name, END_VEVENT>>

\* lines 474-522 with the escaped texts and the result t of parse_time; the
\* timedelta of lines 494 and 512 raises OverflowError on datetime.max
EventBlock(event, k, event_name, location, class_text, t, until_date) ==
    IF t.raised THEN t
    ELSE IF /\ t.is_all_day
            /\ Date(MAXYEAR, 12, 31)
                  = (IF event.type = "recurring" THEN event.start_date ELSE event.date)
    THEN Raised("OverflowError")
    ELSE [raised |-> FALSE,
          lines |-> EventHead(k, class_text \o <<" ", "-", " ">> \o event_name,
                              location)
                    \o EventTail(event, event_name, t, until_date)]

\* lines 474-522: the lines of the k-th event, or the exception of parse_time
EventLines(event, k, full_class_name, until_date) ==
    EventBlock(event, k, escape_ics_text(event.name),
               escape_ics_text(event.location), escape_ics_text(full_class_name),
               parse_time(event.time), until_date)

\* the lines of all blocks in order, or the exception of the first that raised
AllBlocks(blocks) ==
    IF \E k \in 1..Len(blocks) : blocks[k].raised
    THEN blocks[CHOOSE k \in 1..Len(blocks) :
                   blocks[k].raised /\ \A j \in 1..(k - 1) : ~blocks[j].raised]
    ELSE [raised |-> FALSE,
          lines |-> Concat([k \in 1..Len(blocks) |-> blocks[k].lines])]

\* the loop of lines 473-522 over the events
EventsLines(evs, full_class_name, until_date) ==
    AllBlocks([k \in 1..Len(evs) |->
                  EventLines(evs[k], k, full_class_name, until_date)])

\* lines 524-526: the header, the events and the footer, joined
Document(header, body) ==
    IF body.raised THEN body
    ELSE [raised |-> FALSE,
          content |-> Join(header \o body.lines \o <<END_VCALENDAR>>, CRLF)]

\* lines 452-526 for the calendar name and the UNTIL date
ContentFor(evs, full_class_name, until_date, tz) ==
    Document(HeaderLines(full_class_name, tz),
             EventsLines(evs, full_class_name, until_date))

\* lines 452-526: ics_content for a list of events, or the exception raised on the way
RenderContent(evs, cls, section, end_str, tz) ==
    ContentFor(evs, FullClassName(cls, section),
               StrfYmd(strptime_mdY(end_str)) \o T235959, tz)

(***************************************************************************)
(* validate_ics_content                                                    *)
(***************************************************************************)
ValidationOk == "ok"

\* validate_ics_content(ics_content): "ok", or the message of the ValueError
validate_ics_content(content) ==
    IF ~Contains(content, BEGIN_VCALENDAR) THEN "missing BEGIN:VCALENDAR"
    ELSE IF ~Contains(content, VERSION_2_0) THEN "missing VERSION:2.0"
    ELSE IF ~Contains(content, CALSCALE_GREGORIAN) THEN "missing CALSCALE:GREGORIAN"
    ELSE IF ~Contains(content, END_VCALENDAR) THEN "missing END:VCALENDAR"
    ELSE IF ~Contains(content, BEGIN_VEVENT) \/ ~Contains(content, END_VEVENT)
         THEN "no events found"
    ELSE IF Count(content, BEGIN_VEVENT) # Count(content, END_VEVENT)
         THEN "mismatched VEVENT tags"
    ELSE ValidationOk

\* validate_date_format(date_str): TRUE, or FALSE for the ValueError it raises
validate_date_format(date_str) == strptime_mdY(date_str) # None

(***************************************************************************)
(* Inputs: the arguments of a conversion and the texts the extraction step *)
(* may return.                                                             *)
(***************************************************************************)
\* 'CSCE 120'
CSCE_120 ==
    <<"C", "S", "C", "E", " ", "1", "2", "0">>

\* '520'
SECTION_520 ==
    <<"5", "2", "0">>

\* 'America/Chicago'
AMERICA_CHICAGO ==
    <<"A", "m", "e", "r", "i", "c", "a", "/", "C", "h", "i", "c", "a", "g", "o">>

\* '08/25/2025'
START_2025 ==
    <<"0", "8", "/", "2", "5", "/", "2", "0", "2", "5">>

\* '12/16/2025'
END_2025 ==
    <<"1", "2", "/", "1", "6", "/", "2", "0", "2", "5">>

\* 'Lecture | Monday-Wednesday-Friday | 11:30-12:30 | ROOM101'
LectureLine ==
    <<"L", "e", "c", "t", "u", "r", "e", " ", "|", " ", "M", "o", "n", "d", "a", "y", "-", "W", "e", "d", "n", "e", "s", "d", "a", "y", "-", "F", "r", "i", "d", "a", "y", " ", "|", " ", "1", "1", ":", "3", "0", "-", "1", "2", ":", "3", "0", " ", "|", " ", "R", "O", "O", "M", "1", "0", "1">>

\* 'Midterm Exam | 10/15/2025 | 19:00-21:00 | ROOM101'
MidtermLine ==
    <<"M", "i", "d", "t", "e", "r", "m", " ", "E", "x", "a", "m", " ", "|", " ", "1", "0", "/", "1", "5", "/", "2", "0", "2", "5", " ", "|", " ", "1", "9", ":", "0", "0", "-", "2", "1", ":", "0", "0", " ", "|", " ", "R", "O", "O", "M", "1", "0", "1">>

\* 'Final Exam | 12/12/2025 | all-day | TBA'
FinalLine ==
    <<"F", "i", "n", "a", "l", " ", "E", "x", "a", "m", " ", "|", " ", "1", "2", "/", "1", "2", "/", "2", "0", "2", "5", " ", "|", " ", "a", "l", "l", "-", "d", "a", "y", " ", "|", " ", "T", "B", "A">>

\* 'Quiz | TBA | 10:00 | TBA'
TbaLine ==
    <<"Q", "u", "i", "z", " ", "|", " ", "T", "B", "A", " ", "|", " ", "1", "0", ":", "0", "0", " ", "|", " ", "T", "B", "A">>

\* 'Lab | 10/20/2025 | 12: | R1'
BadTimeLine ==
    <<"L", "a", "b", " ", "|", " ", "1", "0", "/", "2", "0", "/", "2", "0", "2", "5", " ", "|", " ", "1", "2", ":", " ", "|", " ", "R", "1">>

\* 'BEGIN:VEVENT | 10/21/2025 | 9 | R2'
MarkerLine ==
    <<"B", "E", "G", "I", "N", ":", "V", "E", "V", "E", "N", "T", " ", "|", " ", "1", "0", "/", "2", "1", "/", "2", "0", "2", "5", " ", "|", " ", "9", " ", "|", " ", "R", "2">>

\* the semester dates a caller may pass: a good pair, '2025-08-25' as the start,
\* '12/16/25' as the end, and the three days 08/25/2025 to 08/27/2025
SemesterArgs ==
    {<<START_2025, END_2025>>,
     <<<<"2", "0", "2", "5", "-", "0", "8", "-", "2", "5">>, END_2025>>,
     <<START_2025, <<"1", "2", "/", "1", "6", "/", "2", "5">>>>,
     <<START_2025, <<"0", "8", "/", "2", "7", "/", "2", "0", "2", "5">>>>}

\* the lines the extraction step may return: the three of the scenario, a date of
\* "TBA", a time with a colon and no minute, a name that is a block marker, and
\* 'Paper | October 15, 2025 | all-day'
\* 'Essay | 13/45/2025 | 10:00'
\* '# Section 520'
\* 'Note<TAB>9'
\* 'Lab | Friday | 10:00 | R1'
LineSet ==
    {LectureLine, MidtermLine, FinalLine, TbaLine, BadTimeLine, MarkerLine,
     <<"P", "a", "p", "e", "r", " ", "|", " ", "O", "c", "t", "o", "b", "e", "r", " ", "1", "5", ",", " ", "2", "0", "2", "5", " ", "|", " ", "a", "l", "l", "-", "d", "a", "y">>,
     <<"E", "s", "s", "a", "y", " ", "|", " ", "1", "3", "/", "4", "5", "/", "2", "0", "2", "5", " ", "|", " ", "1", "0", ":", "0", "0">>,
     <<"#", " ", "S", "e", "c", "t", "i", "o", "n", " ", "5", "2", "0">>,
     <<"N", "o", "t", "e", "\t", "9">>,
     <<"L", "a", "b", " ", "|", " ", "F", "r", "i", "d", "a", "y", " ", "|", " ", "1", "0", ":", "0", "0", " ", "|", " ", "R", "1">>}

\* the three lines of the end-to-end scenario
ScenarioLines == <<LectureLine, MidtermLine, FinalLine>>

\* the batches of lines the extraction step may return
Batches ==
    {ScenarioLines} \cup UNION {[1..n -> LineSet] : n \in 0..MaxLines}

\* response.text of a batch
TextOf(batch) == Join(batch, <<"\n">>)

(***************************************************************************)
(* convert_syllabus_to_calendar, one action per call it makes; the steps   *)
(* of generate_ics_file are Parse, CheckEvents, Render and Validate.       *)
(***************************************************************************)
Init ==
    /\ pc = "validate_start"
    /\ class_name = CSCE_120
    /\ section_number = SECTION_520
    /\ timezone = AMERICA_CHICAGO
    /\ \E sem \in SemesterArgs : semester_start = sem[1] /\ semester_end = sem[2]
    /\ extracted_events = NoStr
    /\ events = <<>>
    /\ gen_ics_content = NoStr
    /\ ics_content = NoStr
    /\ error = "none"
    /\ save_invoked = FALSE
    /\ saved_file = NoStr
    /\ fn = "none" /\ arg = None /\ ret = None

\* an exception leaves convert_syllabus_to_calendar (the except clause re-raises)
Raise(exc) == pc' = "raised" /\ error' = exc

\* line 677
ValidateStart ==
    /\ pc = "validate_start"
    /\ IF validate_date_format(semester_start)
       THEN pc' = "validate_end" /\ UNCHANGED error
       ELSE Raise("ValueError: Invalid date format")
    /\ UNCHANGED <<class_name, section_number, timezone, semester_start, semester_end,
                   extracted_events, events, gen_ics_content, ics_content,
                   save_invoked, saved_file, unit_vars>>

\* line 678
ValidateEnd ==
    /\ pc = "validate_end"
    /\ IF validate_date_format(semester_end)
       THEN pc' = "upload" /\ UNCHANGED error
       ELSE Raise("ValueError: Invalid date format")
    /\ UNCHANGED <<class_name, section_number, timezone, semester_start, semester_end,
                   extracted_events, events, gen_ics_content, ics_content,
                   save_invoked, saved_file, unit_vars>>

\* line 682, upload_syllabus: the file exists or FileNotFoundError
Upload ==
    /\ pc = "upload"
    /\ \E exists \in BOOLEAN :
          IF exists THEN pc' = "extract" /\ UNCHANGED error
          ELSE Raise("FileNotFoundError")
    /\ UNCHANGED <<class_name, section_number, timezone, semester_start, semester_end,
                   extracted_events, events, gen_ics_content, ics_content,
                   save_invoked, saved_file, unit_vars>>

\* lines 685-692, extract_events_from_syllabus: the model's answer, stripped;
\* ValueError when nothing is left
Extract ==
    /\ pc = "extract"
    /\ \E text \in {Strip(TextOf(batch)) : batch \in Batches} :
          IF text = <<>>
          THEN Raise("ValueError: No events extracted") /\ UNCHANGED extracted_events
          ELSE /\ extracted_events' = text
               /\ pc' = "parse"
               /\ UNCHANGED error
    /\ UNCHANGED <<class_name, section_number, timezone, semester_start, semester_end,
                   events, gen_ics_content, ics_content, save_invoked, saved_file,
                   unit_vars>>

\* generate_ics_file, line 445
Parse ==
    /\ pc = "parse"
    /\ \E r \in {parse_extracted_events(extracted_events, semester_start,
                                         semester_end)} :
           IF r.raised
           THEN Raise(IF r.exc = "OverflowError"
                      THEN "OverflowError: date value out of range"
                      ELSE "ValueError: time data does not match format")
                /\ UNCHANGED events
           ELSE events' = r.events /\ pc' = "check_events" /\ UNCHANGED error
    /\ UNCHANGED <<class_name, section_number, timezone, semester_start, semester_end,
                   extracted_events, gen_ics_content, ics_content, save_invoked,
                   saved_file, unit_vars>>

\* generate_ics_file, lines 447-448 without the test: an empty list goes on
CheckEventsSkipped ==
    /\ pc = "check_events"
    /\ pc' = "render"
    /\ UNCHANGED <<class_name, section_number, timezone, semester_start, semester_end,
                   extracted_events, events, gen_ics_content, ics_content, error,
                   save_invoked, saved_file, unit_vars>>

\* generate_ics_file, lines 447-448
CheckEvents ==
    /\ pc = "check_events"
    /\ IF events = <<>>
       THEN Raise("ValueError: No valid events could be parsed")
       ELSE pc' = "render" /\ UNCHANGED error
    /\ UNCHANGED <<class_name, section_number, timezone, semester_start, semester_end,
                   extracted_events, events, gen_ics_content, ics_content,
                   save_invoked, saved_file, unit_vars>>

\* generate_ics_file, lines 450-526
Render ==
    /\ pc = "render"
    /\ \E r \in {RenderContent(events, class_name, section_number, semester_end,
                                 timezone)} :
           IF r.raised
           THEN Raise(IF r.exc = "OverflowError"
                      THEN "OverflowError: date value out of range"
                      ELSE "ValueError: invalid literal for int()")
                /\ UNCHANGED gen_ics_content
           ELSE gen_ics_content' = r.content /\ pc' = "validate" /\ UNCHANGED error
    /\ UNCHANGED <<class_name, section_number, timezone, semester_start, semester_end,
                   extracted_events, events, ics_content, save_invoked, saved_file,
                   unit_vars>>

\* generate_ics_file, lines 530-535, with the ValueError of validate_ics_content
\* swallowed: the text is returned whatever the verdict
ValidateIgnored ==
    /\ pc = "validate"
    /\ ics_content' = gen_ics_content
    /\ pc' = "save"
    /\ UNCHANGED <<class_name, section_number, timezone, semester_start, semester_end,
                   extracted_events, events, gen_ics_content, error, save_invoked,
                   saved_file, unit_vars>>

\* generate_ics_file, lines 530-535: validate_ics_content, then the text is
\* returned to convert_syllabus_to_calendar (line 695)
Validate ==
    /\ pc = "validate"
    /\ \E verdict \in {validate_ics_content(gen_ics_content)} :
           IF verdict = ValidationOk
           THEN ics_content' = gen_ics_content /\ pc' = "save" /\ UNCHANGED error
           ELSE Raise("ValueError: Invalid .ics file") /\ UNCHANGED ics_content
    /\ UNCHANGED <<class_name, section_number, timezone, semester_start, semester_end,
                   extracted_events, events, gen_ics_content, save_invoked,
                   saved_file, unit_vars>>

\* line 705, save_ics_file: the file is written; or open fails and the disk is
\* as before; or open succeeds, which empties the file, and write fails
Save ==
    /\ pc = "save"
    /\ save_invoked' = TRUE
    /\ \E outcome \in {"written", "open_failed", "write_failed"} :
          CASE outcome = "written" ->
                  saved_file' = ics_content /\ pc' = "done" /\ UNCHANGED error
            [] outcome = "open_failed" ->
                  Raise("IOError") /\ UNCHANGED saved_file
            [] outcome = "write_failed" ->
                  Raise("IOError") /\ saved_file' = <<>>
    /\ UNCHANGED <<class_name, section_number, timezone, semester_start, semester_end,
                   extracted_events, events, gen_ics_content, ics_content, unit_vars>>

Next ==
    \/ ValidateStart
    \/ ValidateEnd
    \/ Upload
    \/ Extract
    \/ Parse
    \/ CheckEvents
    \/ Render
    \/ Validate
    \/ Save

Spec == Init /\ [][Next]_vars

\* the month names as a syllabus writes them
MonthTitles ==
    <<<<"J", "a", "n", "u", "a", "r", "y">>,
      <<"F", "e", "b", "r", "u", "a", "r", "y">>,
      <<"M", "a", "r", "c", "h">>,
      <<"A", "p", "r", "i", "l">>,
      <<"M", "a", "y">>,
      <<"J", "u", "n", "e">>,
      <<"J", "u", "l", "y">>,
      <<"A", "u", "g", "u", "s", "t">>,
      <<"S", "e", "p", "t", "e", "m", "b", "e", "r">>,
      <<"O", "c", "t", "o", "b", "e", "r">>,
      <<"N", "o", "v", "e", "m", "b", "e", "r">>,
      <<"D", "e", "c", "e", "m", "b", "e", "r">>>>

(***************************************************************************)
(* Unit specifications: one function of the program applied to each of a   *)
(* bounded set of arguments.  The conversion does not run in them.         *)
(***************************************************************************)
ConvIdle ==
    /\ pc = "idle"
    /\ class_name = NoStr
    /\ section_number = NoStr
    /\ timezone = NoStr
    /\ semester_start = NoStr
    /\ semester_end = NoStr
    /\ extracted_events = NoStr
    /\ events = <<>>
    /\ gen_ics_content = NoStr
    /\ ics_content = NoStr
    /\ error = "none"
    /\ save_invoked = FALSE
    /\ saved_file = NoStr

\* ret after the call; before it, ret is [done |-> FALSE]
Returned(value) == [done |-> TRUE, value |-> value]

\* the sequences over alphabet of length lo..hi
SeqsOver(alphabet, lo, hi) == UNION {[1..n -> alphabet] : n \in lo..hi}

\* ---- escape_ics_text ----
\* the texts over backslash, semicolon, comma, newline, and the ordinary
\* characters n and a
EscapeTexts == SeqsOver({"\\", ";", ",", "\n", "n", "a"}, 0, MaxTextLen)

InitEscape ==
    /\ ConvIdle
    /\ fn = "escape_ics_text"
    /\ arg \in EscapeTexts
    /\ ret = [done |-> FALSE]

CallEscape ==
    /\ fn = "escape_ics_text"
    /\ ~ret.done
    /\ ret' = Returned(escape_ics_text(arg))
    /\ UNCHANGED <<conv_vars, fn, arg>>

SpecEscape == InitEscape /\ [][CallEscape]_vars

\* ---- parse_time ----
TimeTokens ==
    SeqsOver({"1", "9", ":", "-", "a", " "}, 0, MaxTimeLen)
    \cup {ALL_DAY_HYPHEN, ALL_DAY_SPACE,
          <<"A", "L", "L", " ", "D", "A", "Y">>,
          <<"1", "1", ":", "3", "0", "-", "1", "2", ":", "3", "0">>,
          <<"7", ":", "0", "0", " ", "P", "M", "-", "9", ":", "0", "0", " ", "P", "M">>,
          <<"2", "3", ":", "5", "9">>}

InitTime ==
    /\ ConvIdle
    /\ fn = "parse_time"
    /\ arg \in TimeTokens
    /\ ret = [done |-> FALSE]

CallParseTime ==
    /\ fn = "parse_time"
    /\ ~ret.done
    /\ ret' = Returned(parse_time(arg))
    /\ UNCHANGED <<conv_vars, fn, arg>>

SpecTime == InitTime /\ [][CallParseTime]_vars

\* ---- parse_date ----
\* the token "MM/DD" of month m and day d
MonthDayToken(m, d) == ZeroPad(m, 2) \o <<"/">> \o ZeroPad(d, 2)

\* the token "Month D, YYYY"
MonthNameToken(m, d, y) ==
    MonthTitles[m] \o <<" ">> \o Str(d) \o <<",", " ">> \o ZeroPad(y, 4)

DateTokens ==
    {MonthDayToken(m, d) : m \in 1..12, d \in 1..31}
    \cup {MonthNameToken(m, 15, 2025) : m \in 1..12}
    \cup {TBA, <<"1", "0", "/", "1", "5", "/", "2", "0", "2", "5">>,
          <<"S", "e", "p", " ", "5">>, <<"M", "a", "r", "c", "h", " ", "9">>}

\* semester windows: within 2025, within the leap year 2024, and across new year
Windows ==
    {<<Date(2025, 8, 25), Date(2025, 12, 16)>>,
     <<Date(2024, 1, 15), Date(2024, 5, 10)>>,
     <<Date(2025, 11, 3), Date(2026, 3, 20)>>}

InitDate ==
    /\ ConvIdle
    /\ fn = "parse_date"
    /\ \E tok \in DateTokens, w \in Windows :
          arg = [date_str |-> tok, sem_start |-> w[1], sem_end |-> w[2]]
    /\ ret = [done |-> FALSE]

CallParseDate ==
    /\ fn = "parse_date"
    /\ ~ret.done
    /\ ret' = Returned(parse_date(arg.date_str, arg.sem_start, arg.sem_end))
    /\ UNCHANGED <<conv_vars, fn, arg>>

SpecDate == InitDate /\ [][CallParseDate]_vars

\* ---- parse_extracted_events on one line ----
\* the line "Paper | Month D, YYYY | time"
MonthNameLine(m, d, y, time_str) ==
    <<"P", "a", "p", "e", "r", " ", "|", " ">> \o MonthNameToken(m, d, y)
    \o <<" ", "|", " ">> \o time_str

InitParse ==
    /\ ConvIdle
    /\ fn = "parse_extracted_events"
    /\ \E m \in 1..12, d \in {1, 15, 28}, y \in {2025, 2026},
          time_str \in {ALL_DAY_HYPHEN, <<"1", "0", ":", "0", "0">>} :
          arg = [extracted_events |-> MonthNameLine(m, d, y, time_str),
                 semester_start |-> START_2025, semester_end |-> END_2025,
                 m |-> m, d |-> d, y |-> y]
    /\ ret = [done |-> FALSE]

CallParseEvents ==
    /\ fn = "parse_extracted_events"
    /\ ~ret.done
    /\ ret' = Returned(parse_extracted_events(arg.extracted_events,
                                              arg.semester_start, arg.semester_end))
    /\ UNCHANGED <<conv_vars, fn, arg>>

SpecParse == InitParse /\ [][CallParseEvents]_vars


\* ---- find_first_occurrence ----
\* start dates: three weeks of a semester start, the end of a leap February, a
\* new year, and the last days a datetime can hold
StartDates ==
    {Date(2025, 8, d) : d \in 18..31} \cup {Date(2025, 9, d) : d \in 1..7}
    \cup {Date(2024, 2, d) : d \in 24..29} \cup {Date(2024, 3, d) : d \in 1..3}
    \cup {Date(2025, 12, d) : d \in 27..31} \cup {Date(2026, 1, d) : d \in 1..4}
    \cup {Date(MAXYEAR, 12, d) : d \in 20..31}

\* the day codes in the order of day_map
DayCodes == <<"MO", "TU", "WE", "TH", "FR", "SA", "SU">>

\* the lists of day codes recurring_days can hold, by the set of their indices
DayLists ==
    {SelectSeq(DayCodes, LAMBDA code : \E i \in picked : DayCodes[i] = code) :
        picked \in SUBSET (1..7)}

InitFirst ==
    /\ ConvIdle
    /\ fn = "find_first_occurrence"
    /\ \E start \in StartDates, days \in DayLists :
          arg = [start_date |-> start, days |-> days]
    /\ ret = [done |-> FALSE]

CallFirst ==
    /\ fn = "find_first_occurrence"
    /\ ~ret.done
    /\ ret' = Returned(find_first_occurrence(arg.start_date, arg.days))
    /\ UNCHANGED <<conv_vars, fn, arg>>

\* find_first_occurrence applied to its own result with the same days; an
\* exception of the inner call leaves the outer one too
CallFirstAgain ==
    /\ fn = "find_first_occurrence"
    /\ ret.done
    /\ "again" \notin DOMAIN ret
    /\ ret' = [done |-> TRUE, value |-> ret.value,
               again |-> IF ret.value = Raised("OverflowError")
                         THEN ret.value
                         ELSE find_first_occurrence(ret.value, arg.days)]
    /\ UNCHANGED <<conv_vars, fn, arg>>

SpecFirst == InitFirst /\ [][CallFirst \/ CallFirstAgain]_vars
(***************************************************************************)
(* Properties.                                                             *)
(***************************************************************************)
\* parse_extracted_events has returned its list to generate_ics_file
Parsed == pc \in {"check_events", "render", "validate", "save", "done"}

\* the lines of the document are joined
Rendered == gen_ics_content # NoStr

\* the exceptions generate_ics_file can raise after the semester dates are read
GenerateErrors ==
    {"ValueError: No valid events could be parsed",
     "ValueError: invalid literal for int()",
     "ValueError: Invalid .ics file"}

\* the fatal errors of a conversion
FatalErrors ==
    GenerateErrors \cup {"ValueError: Invalid date format",
                         "ValueError: No events extracted"}

\* the conversion runs on the three lines of the scenario, window 08/25/2025 to
\* 12/16/2025
ScenarioRun ==
    /\ extracted_events = TextOf(ScenarioLines)
    /\ semester_start = START_2025
    /\ semester_end = END_2025

\* 'RRULE:FREQ=WEEKLY;BYDAY=MO,WE,FR;UNTIL=20251216T235959'
BYDAY_MO_WE_FR_UNTIL ==
    <<"R", "R", "U", "L", "E", ":", "F", "R", "E", "Q", "=", "W", "E", "E", "K", "L", "Y", ";", "B", "Y", "D", "A", "Y", "=", "M", "O", ",", "W", "E", ",", "F", "R", ";", "U", "N", "T", "I", "L", "=", "2", "0", "2", "5", "1", "2", "1", "6", "T", "2", "3", "5", "9", "5", "9">>

\* 'RRULE:FREQ=WEEKLY;BYDAY=MO,WE,TH,FR,SA;UNTIL=20251216T235959'
BYDAY_SCENARIO ==
    <<"R", "R", "U", "L", "E", ":", "F", "R", "E", "Q", "=", "W", "E", "E", "K", "L", "Y", ";", "B", "Y", "D", "A", "Y", "=", "M", "O", ",", "W", "E", ",", "T", "H", ",", "F", "R", ",", "S", "A", ";", "U", "N", "T", "I", "L", "=", "2", "0", "2", "5", "1", "2", "1", "6", "T", "2", "3", "5", "9", "5", "9">>

\* 'DTSTART:20250825T113000'
LECTURE_DTSTART ==
    <<"D", "T", "S", "T", "A", "R", "T", ":", "2", "0", "2", "5", "0", "8", "2", "5", "T", "1", "1", "3", "0", "0", "0">>

\* 'DTSTART:20251015T190000'
MIDTERM_DTSTART ==
    <<"D", "T", "S", "T", "A", "R", "T", ":", "2", "0", "2", "5", "1", "0", "1", "5", "T", "1", "9", "0", "0", "0", "0">>

\* 'DTEND:20251015T210000'
MIDTERM_DTEND ==
    <<"D", "T", "E", "N", "D", ":", "2", "0", "2", "5", "1", "0", "1", "5", "T", "2", "1", "0", "0", "0", "0">>

\* 'DTSTART;VALUE=DATE:20251212'
FINAL_DTSTART ==
    <<"D", "T", "S", "T", "A", "R", "T", ";", "V", "A", "L", "U", "E", "=", "D", "A", "T", "E", ":", "2", "0", "2", "5", "1", "2", "1", "2">>

\* 'DTEND;VALUE=DATE:20251213'
FINAL_DTEND ==
    <<"D", "T", "E", "N", "D", ";", "V", "A", "L", "U", "E", "=", "D", "A", "T", "E", ":", "2", "0", "2", "5", "1", "2", "1", "3">>

\* 'SUMMARY:CSCE 120 (520) - Midterm Exam'
MIDTERM_SUMMARY ==
    <<"S", "U", "M", "M", "A", "R", "Y", ":", "C", "S", "C", "E", " ", "1", "2", "0", " ", "(", "5", "2", "0", ")", " ", "-", " ", "M", "i", "d", "t", "e", "r", "m", " ", "E", "x", "a", "m">>

\* 'SUMMARY:CSCE 120 (520) - Final Exam'
FINAL_SUMMARY ==
    <<"S", "U", "M", "M", "A", "R", "Y", ":", "C", "S", "C", "E", " ", "1", "2", "0", " ", "(", "5", "2", "0", ")", " ", "-", " ", "F", "i", "n", "a", "l", " ", "E", "x", "a", "m">>

\* 'Quiz'
QUIZ ==
    <<"Q", "u", "i", "z">>

\* C1: the three lines of the scenario, window 08/25/2025 to 12/16/2025, give
\* exactly three events in input order: a recurring event on exactly MO, WE and
\* FR with first occurrence 08/25/2025 and recurrence until 12/16/2025
\* end-of-day, a single timed event on 10/15/2025 from 19:00 to 21:00, and a
\* single all-day event on 12/12/2025 whose DTEND is 12/13/2025.
C1_ScenarioEvents ==
    ScenarioRun =>
        /\ Parsed =>
              /\ Len(events) = 3
              /\ events[1].type = "recurring"
              /\ {events[1].days[i] : i \in 1..Len(events[1].days)} = {"MO", "WE", "FR"}
              /\ events[1].start_date = Date(2025, 8, 25)
              /\ events[1].end_date = Date(2025, 12, 16)
              /\ events[2].type = "single"
              /\ events[2].date = Date(2025, 10, 15)
              /\ events[3].type = "single"
              /\ events[3].date = Date(2025, 12, 12)
        /\ Rendered =>
              /\ Contains(gen_ics_content, BYDAY_MO_WE_FR_UNTIL)
              /\ Contains(gen_ics_content, LECTURE_DTSTART)
              /\ Contains(gen_ics_content, MIDTERM_DTSTART)
              /\ Contains(gen_ics_content, MIDTERM_DTEND)
              /\ Contains(gen_ics_content, FINAL_DTSTART)
              /\ Contains(gen_ics_content, FINAL_DTEND)

\* the scenario ran to the end and its recurring event is on MO, WE, TH, FR, SA
C1_ScenarioDays ==
    /\ ScenarioRun
    /\ pc = "done"
    /\ Len(events) = 3
    /\ events[1].days = <<"MO", "WE", "TH", "FR", "SA">>
    /\ events[1].start_date = Date(2025, 8, 25)
    /\ Contains(saved_file, BYDAY_SCENARIO)
    /\ Contains(saved_file, MIDTERM_DTEND)
    /\ Contains(saved_file, FINAL_DTEND)

\* the lines of LineSet with a month/day/year date and a well-formed time
ResolvableLines == {MidtermLine, FinalLine}

\* the batches made of resolvable lines and of the line whose date is "TBA"
TbaBatches ==
    UNION {[1..n -> ResolvableLines \cup {TbaLine}] : n \in 1..MaxLines}

\* the number of resolvable lines of a batch
ResolvableCount(batch) ==
    Cardinality({i \in 1..Len(batch) : batch[i] \in ResolvableLines})

\* C2: in every batch, a line of at least three fields whose date token is "TBA"
\* gives no event: it is absent from the parsed list and from the rendered
\* text, and the number of events is the number of resolvable lines.
C2_TbaSkipped ==
    \A batch \in TbaBatches :
        (extracted_events = TextOf(batch) /\ Parsed) =>
            /\ Len(events) = ResolvableCount(batch)
            /\ \A i \in 1..Len(events) : events[i].name # QUIZ
            /\ Rendered => ~Contains(gen_ics_content, QUIZ)

\* the line with date "TBA" alone became a weekly event on Tuesday, saved to disk
C2_TbaRecurs ==
    /\ extracted_events = TbaLine
    /\ pc = "done"
    /\ Len(events) = 1
    /\ events[1].name = QUIZ
    /\ events[1].type = "recurring"
    /\ events[1].days = <<"TU">>
    /\ events[1].start_date = Date(2025, 8, 26)
    /\ Contains(saved_file, QUIZ)

\* (m1, d1) is before (m2, d2) in the year
MonthDayBefore(m1, d1, m2, d2) == m1 < m2 \/ (m1 = m2 /\ d1 < d2)

\* the year the rule of C3 gives month m, day d in the window from sem_start
ClaimedYear(m, d, sem_start, sem_end) ==
    IF MonthDayBefore(m, d, sem_start.m, sem_start.d) THEN sem_end.y ELSE sem_start.y

\* C3: a month/day token without a year resolves to that month and day in the
\* window's end year when the month/day is before the window start's, and in the
\* window's start year otherwise (for every day that exists in that year); and
\* with window 08/25/2025 to 12/16/2025 the token "01/10" resolves to 01/10/2026.
C3_YearInference ==
    (fn = "parse_date" /\ ret.done) =>
        /\ \A m \in 1..12, d \in 1..31 :
              (/\ arg.date_str = MonthDayToken(m, d)
               /\ d <= DaysInMonth(ClaimedYear(m, d, arg.sem_start, arg.sem_end), m))
              => ret.value = Date(ClaimedYear(m, d, arg.sem_start, arg.sem_end), m, d)
        /\ (/\ arg.date_str = MonthDayToken(1, 10)
            /\ arg.sem_start = Date(2025, 8, 25)
            /\ arg.sem_end = Date(2025, 12, 16))
           => ret.value = Date(2026, 1, 10)

\* "02/29" in the leap-year window 01/15/2024 to 05/10/2024 was resolved to None
C3_LeapDayDropped ==
    /\ fn = "parse_date"
    /\ ret.done
    /\ arg.date_str = MonthDayToken(2, 29)
    /\ arg.sem_start = Date(2024, 1, 15)
    /\ arg.sem_end = Date(2024, 5, 10)
    /\ ret.value = None

\* C4: the rendered text of N events holds exactly N "BEGIN:VEVENT" and exactly
\* N "END:VEVENT", whatever the names and locations, so that its validation
\* succeeds.
C4_BlockPairs ==
    Rendered =>
        /\ Count(gen_ics_content, BEGIN_VEVENT) = Len(events)
        /\ Count(gen_ics_content, END_VEVENT) = Len(events)
        /\ validate_ics_content(gen_ics_content) = ValidationOk

\* one event named "BEGIN:VEVENT" was rendered with three begin markers and one
\* end marker, and validation rejected the text
C4_MarkerInName ==
    /\ extracted_events = MarkerLine
    /\ pc = "raised"
    /\ error = "ValueError: Invalid .ics file"
    /\ Len(events) = 1
    /\ events[1].name = BEGIN_VEVENT
    /\ Count(gen_ics_content, BEGIN_VEVENT) = 3
    /\ Count(gen_ics_content, END_VEVENT) = 1

\* C5: parse_time is total: for every time token it returns all-day or a start
\* and an end time, and never raises.
C5_ParseTimeTotal ==
    (fn = "parse_time" /\ ret.done) =>
        /\ ~ret.value.raised
        /\ \/ ret.value.is_all_day
           \/ ret.value.start_time # NoStr /\ ret.value.end_time # NoStr

\* parse_time("19:") raised ValueError
C5_MissingMinuteRaises ==
    /\ fn = "parse_time"
    /\ ret.done
    /\ arg = <<"1", "9", ":">>
    /\ ret.value.raised
    /\ ret.value.exc = "ValueError"

\* the batch holds a line with a month/day/year date and a well-formed time
HasResolvableLine == \E line \in ResolvableLines : Contains(extracted_events, line)

\* the SUMMARY line of a resolvable line
SummaryOf(line) == IF line = MidtermLine THEN MIDTERM_SUMMARY ELSE FINAL_SUMMARY

\* C6: a per-line problem never aborts the batch: when the batch holds a fully
\* resolvable line, generate_ics_file raises nothing, and the calendar it
\* returns holds the events of the resolvable lines.
C6_BatchNeverAborts ==
    HasResolvableLine =>
        /\ error \notin GenerateErrors
        /\ pc \in {"save", "done"} =>
              \A line \in ResolvableLines :
                  Contains(extracted_events, line)
                  => Contains(ics_content, SummaryOf(line))

\* the batch of the midterm line and the line with time "12:" ended in the
\* ValueError of int(''), with no calendar returned
C6_BadTimeAborts ==
    /\ extracted_events = TextOf(<<MidtermLine, BadTimeLine>>)
    /\ pc = "raised"
    /\ error = "ValueError: invalid literal for int()"
    /\ Len(events) = 2
    /\ ics_content = NoStr
    /\ ~save_invoked

\* C7: an empty event list fails with an error and is never rendered: past the
\* test of the list, either the conversion has raised and no text was rendered
\* or returned, or the list is not empty; and a returned text holds an event
\* block.
C7_EmptyListFails ==
    /\ (events = <<>> /\ pc \notin {"validate_start", "validate_end", "upload",
                                     "extract", "parse", "check_events"})
       => /\ pc = "raised"
          /\ gen_ics_content = NoStr
          /\ ics_content = NoStr
    /\ ics_content # NoStr
       => /\ Contains(ics_content, BEGIN_VEVENT)
          /\ Contains(ics_content, END_VEVENT)

\* every line of a batch was skipped and the conversion raised the error of the
\* empty list, with nothing rendered
C7_EmptyListRaised ==
    /\ extracted_events # NoStr
    /\ events = <<>>
    /\ pc = "raised"
    /\ error = "ValueError: No valid events could be parsed"
    /\ gen_ics_content = NoStr

\* C8: save_ics_file is invoked only after the semester dates were accepted, an
\* event was parsed, and the rendered text passed validate_ics_content; and
\* after a fatal error save_ics_file was not invoked and no file is written.
C8_SaveAfterValidation ==
    /\ save_invoked =>
          /\ validate_date_format(semester_start)
          /\ validate_date_format(semester_end)
          /\ events # <<>>
          /\ Rendered
          /\ ics_content = gen_ics_content
          /\ validate_ics_content(ics_content) = ValidationOk
    /\ saved_file # NoStr => save_invoked
    /\ pc = "done" => saved_file = ics_content
    /\ (pc = "raised" /\ error \in FatalErrors) =>
          ~save_invoked /\ saved_file = NoStr

\* a conversion wrote its validated text to the output file
C8_FileWritten ==
    /\ pc = "done"
    /\ save_invoked
    /\ saved_file = ics_content
    /\ validate_ics_content(saved_file) = ValidationOk

\* C9: a line whose date token is "Month DD, YYYY", for each of the twelve
\* months, gives one single event on that date, never a recurring event and
\* never a skip.
C9_MonthNameSingle ==
    (fn = "parse_extracted_events" /\ ret.done) =>
        /\ ~ret.value.raised
        /\ Len(ret.value.events) = 1
        /\ ret.value.events[1].type = "single"
        /\ ret.value.events[1].date = Date(arg.y, arg.m, arg.d)

\* "October 15, 2025" gave a recurring event on Tuesday and Thursday
C9_OctoberRecurs ==
    /\ fn = "parse_extracted_events"
    /\ ret.done
    /\ arg.m = 10 /\ arg.d = 15 /\ arg.y = 2025
    /\ Len(ret.value.events) = 1
    /\ ret.value.events[1].type = "recurring"
    /\ ret.value.events[1].days = <<"TU", "TH">>

\* the image of one character under the escaping of C10
EscapeChar(c) ==
    CASE c = "\\" -> <<"\\", "\\">>
      [] c = ";"  -> <<"\\", ";">>
      [] c = ","  -> <<"\\", ",">>
      [] c = "\n" -> <<"\\", "n">>
      [] OTHER    -> <<c>>

\* the character-by-character image of a text
CharImage(text) == Concat([i \in 1..Len(text) |-> EscapeChar(text[i])])

\* escape_ics_text on every text of the bounded set
EscapeImage == [text \in EscapeTexts |-> escape_ics_text(text)]

\* C10: for every non-empty text, escape_ics_text returns its
\* character-by-character image (backslash doubled; semicolon, comma and newline
\* prefixed by one backslash that is not doubled in turn), and no other text
\* escapes to the same output.
C10_EscapeImage ==
    (fn = "escape_ics_text" /\ ret.done /\ arg # <<>>) =>
        /\ ret.value = CharImage(arg)
        /\ \A other \in EscapeTexts \ {arg} : EscapeImage[other] # ret.value

\* the text backslash, semicolon was escaped to backslash, backslash, backslash,
\* semicolon
C10_BackslashSemicolon ==
    /\ fn = "escape_ics_text"
    /\ ret.done
    /\ arg = <<"\\", ";">>
    /\ ret.value = <<"\\", "\\", "\\", ";">>

\* t is six digits HHMMSS with hour at most max_hour, minute at most 59, seconds 00
IsHHMMSS(t, max_hour) ==
    /\ Len(t) = 6
    /\ IsDigit(t)
    /\ IntOf(SubSeq(t, 1, 2)) \in 0..max_hour
    /\ IntOf(SubSeq(t, 3, 4)) \in 0..59
    /\ SubSeq(t, 5, 6) = <<"0", "0">>

\* C11: for every time token that resolves to a timed value, the start and the
\* end are each six digits HHMMSS with hour 00..23, minute 00..59 and seconds
\* 00; an end hour of 24 is tolerated only one hour after a start hour of 23.
C11_SixDigitTimes ==
    (fn = "parse_time" /\ ret.done /\ ~ret.value.raised /\ ~ret.value.is_all_day) =>
        /\ IsHHMMSS(ret.value.start_time, 23)
        /\ \/ IsHHMMSS(ret.value.end_time, 23)
           \/ /\ IsHHMMSS(ret.value.end_time, 24)
              /\ SubSeq(ret.value.start_time, 1, 2) = <<"2", "3">>
              /\ SubSeq(ret.value.end_time, 3, 4) = SubSeq(ret.value.start_time, 3, 4)

\* parse_time("99") returned the start 990000 and the seven-digit end 1000000
C11_Hour99 ==
    /\ fn = "parse_time"
    /\ ret.done
    /\ arg = <<"9", "9">>
    /\ ~ret.value.raised
    /\ ret.value.start_time = <<"9", "9", "0", "0", "0", "0">>
    /\ ret.value.end_time = <<"1", "0", "0", "0", "0", "0", "0">>

\* C12: find_first_occurrence is idempotent: applied to its own result with the
\* same non-empty list of days, it returns that result again.
C12_Idempotent ==
    (/\ fn = "find_first_occurrence"
     /\ ret.done
     /\ "again" \in DOMAIN ret
     /\ arg.days # <<>>)
    => ret.again = ret.value

\* from Tuesday 08/26/2025 with days MO, FR the first occurrence is Friday
\* 08/29/2025, and so is the first occurrence from that Friday
C12_FridayTwice ==
    /\ fn = "find_first_occurrence"
    /\ ret.done
    /\ "again" \in DOMAIN ret
    /\ arg.start_date = Date(2025, 8, 26)
    /\ arg.days = <<"MO", "FR">>
    /\ ret.value = Date(2025, 8, 29)
    /\ ret.again = Date(2025, 8, 29)

\* the weekday codes of a list of days
CodesOf(days) == {days[i] : i \in 1..Len(days)}

\* the code of the weekday of the day with ordinal n (ordinal 1 is a Monday)
CodeOfOrdinal(n) == DayCodes[((n + 6) % 7) + 1]

\* the offsets k in 0..6 for which start + k days is a datetime whose weekday
\* is in days
Hits(start, days) ==
    {k \in 0..6 : /\ ToOrdinal(start) + k <= ToOrdinal(Date(MAXYEAR, 12, 31))
                  /\ CodeOfOrdinal(ToOrdinal(start) + k) \in CodesOf(days)}

\* the value is a date, the earliest of start .. start + 6 days whose weekday
\* is in days, and the loop returned it (not the fallback of line 340)
IsEarliestHit(value, start, days) ==
    /\ value # Raised("OverflowError")
    /\ Hits(start, days) # {}
    /\ ToOrdinal(value) - ToOrdinal(start) \in Hits(start, days)
    /\ \A k \in Hits(start, days) : ToOrdinal(value) - ToOrdinal(start) <= k
    /\ CodeOfOrdinal(ToOrdinal(value)) \in CodesOf(days)
    /\ ScanDays(start, {day_to_weekday(code) : code \in CodesOf(days)}, ScanLimit)
          = value

\* C13 as stated: for every start date and every non-empty list of days,
\* find_first_occurrence returns, within 7 scan steps and never by the fallback,
\* the earliest date of start .. start + 6 days whose weekday is in the list.
C13_AlwaysEarliestHit ==
    (fn = "find_first_occurrence" /\ ret.done /\ arg.days # <<>>)
    => IsEarliestHit(ret.value, arg.start_date, arg.days)

\* C13 amended: the same for every start date from which a day of the list is
\* reached on or before 12/31/9999, the last datetime; from the other start
\* dates (the last six days of year 9999 at most) find_first_occurrence raises
\* OverflowError.
C13_EarliestHitOrOverflow ==
    (fn = "find_first_occurrence" /\ ret.done /\ arg.days # <<>>)
    => IF Hits(arg.start_date, arg.days) # {}
       THEN IsEarliestHit(ret.value, arg.start_date, arg.days)
       ELSE ret.value = Raised("OverflowError")

\* from Saturday 08/30/2025 with days MO the scan crossed the month and
\* returned Monday 09/01/2025
C13_NextMonday ==
    /\ fn = "find_first_occurrence"
    /\ ret.done
    /\ arg.start_date = Date(2025, 8, 30)
    /\ arg.days = <<"MO">>
    /\ ret.value = Date(2025, 9, 1)

\* 'Lab | Friday | 10:00 | R1'
LabLine ==
    <<"L", "a", "b", " ", "|", " ", "F", "r", "i", "d", "a", "y", " ", "|", " ", "1", "0", ":", "0", "0", " ", "|", " ", "R", "1">>

\* '08/27/2025'
END_AUG_27 ==
    <<"0", "8", "/", "2", "7", "/", "2", "0", "2", "5">>

\* 'DTSTART:20250828T100000'
LAB_DTSTART ==
    <<"D", "T", "S", "T", "A", "R", "T", ":", "2", "0", "2", "5", "0", "8", "2", "8", "T", "1", "0", "0", "0", "0", "0">>

\* 'RRULE:FREQ=WEEKLY;BYDAY=TH,FR;UNTIL=20250827T235959'
LAB_UNTIL ==
    <<"R", "R", "U", "L", "E", ":", "F", "R", "E", "Q", "=", "W", "E", "E", "K", "L", "Y", ";", "B", "Y", "D", "A", "Y", "=", "T", "H", ",", "F", "R", ";", "U", "N", "T", "I", "L", "=", "2", "0", "2", "5", "0", "8", "2", "7", "T", "2", "3", "5", "9", "5", "9">>

\* C14: for every window with start <= end, the first occurrence of every
\* recurring event is not later than the end of the window, the date of its
\* RRULE UNTIL.
C14_FirstWithinWindow ==
    Parsed =>
        \A i \in 1..Len(events) :
            events[i].type = "recurring"
            => ~DateLess(events[i].end_date, events[i].start_date)

\* the line 'Lab | Friday | 10:00 | R1' in the window 08/25/2025 to 08/27/2025:
\* the document starts the event on Thursday 08/28/2025 and ends its
\* recurrence on 08/27/2025
C14_LabAfterWindow ==
    /\ Rendered
    /\ extracted_events = LabLine
    /\ semester_start = START_2025
    /\ semester_end = END_AUG_27
    /\ events[1].start_date = Date(2025, 8, 28)
    /\ events[1].end_date = Date(2025, 8, 27)
    /\ Contains(gen_ics_content, LAB_DTSTART)
    /\ Contains(gen_ics_content, LAB_UNTIL)

=============================================================================
